---------------------------- MODULE Spec2Model ----------------------------
(***************************************************************************)
(* Model of the homework status bot (src/homework.py, src/exceptions.py). *)
(*                                                                         *)
(* Encoding of Python values.                                              *)
(*   - A decoded JSON value is a tagged record [t |-> tag, v |-> payload]  *)
(*     with tag "dict" (payload: function from keys to JSON values),       *)
(*     "list" (payload: sequence), "str" (payload: string) or "null".      *)
(*   - A homework record (Dict[str, str] in the source) is a function      *)
(*     from a set of string keys to strings; {} is the empty function.     *)
(*   - The outcome of a call is [exc, text, value]: exc = "" for a normal  *)
(*     return of value, otherwise the class of the raised exception and    *)
(*     the argument it was constructed with.                               *)
(*   - TLA+ strings are ASCII, so the Russian message texts of the source  *)
(*     are rendered in English; every distinct text of the source is a     *)
(*     distinct text here, and formatting is done by concatenation.        *)
(***************************************************************************)
EXTENDS Naturals, Sequences, FiniteSets, TLC

VARIABLES
    env,            \* PRACTICUM_TOKEN, TELEGRAM_TOKEN, TELEGRAM_CHAT_ID: set or None
    pc,             \* position of main()
    error_message,  \* main: text of the last failure notification stored
    current_report, \* main: report of the record being processed
    prev_report,    \* main: the single stored report
    list_homeworks, \* main: records returned by check_response this cycle
    idx,            \* main: position of the for loop in list_homeworks
    error,          \* main: the exception bound by `except Exception as error`
    message,        \* main: the diagnostic text formatted from error
    http,           \* the HTTP exchange of the current cycle (environment)
    log,            \* events of the current cycle, in order: API requests,
                    \* Notifier invocations, short delays
    prev_cycle,     \* the exchange, events and diagnostic of the previous cycle
    notified,       \* text of the last failure notification delivered
    last_delivered, \* report of the last status notification delivered
    call            \* a single call of one of the pure functions

vars == <<env, pc, error_message, current_report, prev_report, list_homeworks,
          idx, error, message, http, log, prev_cycle, notified,
          last_delivered, call>>

mainVars == <<env, pc, error_message, current_report, prev_report,
              list_homeworks, idx, error, message, http, log, prev_cycle,
              notified, last_delivered>>

---------------------------------------------------------------------------
(* Bounds of the model. *)

\* Longest homeworks list a response carries.
MaxHomeworks == 2

---------------------------------------------------------------------------
(* Program constants. *)

HTTP_OK == 200
HTTP_NOT_FOUND == 404

HOMEWORK_VERDICTS ==
    [approved  |-> "Work checked: the reviewer liked everything. Hooray!",
     reviewing |-> "Work taken for review by the reviewer.",
     rejected  |-> "Work checked: the reviewer has remarks."]

---------------------------------------------------------------------------
(* Python values. *)

JNull == [t |-> "null", v |-> ""]
JInt(n) == [t |-> "int", v |-> n]
JStr(s) == [t |-> "str", v |-> s]
JList(s) == [t |-> "list", v |-> s]
JDict(f) == [t |-> "dict", v |-> f]

\* The empty dict {}.
EmptyDict == <<>>

Ok(v) == [exc |-> "", text |-> "", value |-> v]
Raise(kind, text) == [exc |-> kind, text |-> text, value |-> <<>>]

\* dict.get(key): the value, or None.
DictGet(d, key) == IF key \in DOMAIN d THEN d[key] ELSE JNull

\* bool(x) is False.
Falsy(x) ==
    \/ x.t = "null"
    \/ x.t = "int" /\ x.v = 0
    \/ x.t = "str" /\ x.v = ""
    \/ x.t = "list" /\ x.v = <<>>
    \/ x.t = "dict" /\ DOMAIN x.v = {}

\* format(x) inside an f-string, for None, int and str.
Format(x) ==
    IF x.t = "null" THEN "None"
    ELSE IF x.t = "int" THEN ToString(x.v)
    ELSE x.v

\* str(exception): a KeyError shows the repr of its argument.
ExcStr(e) == IF e.exc = "KeyError" THEN "'" \o e.text \o "'" ELSE e.text

---------------------------------------------------------------------------
(* check_tokens, and the test main() makes of it. *)

check_tokens(e) ==
    /\ e.PRACTICUM_TOKEN
    /\ e.TELEGRAM_TOKEN
    /\ e.TELEGRAM_CHAT_ID

\* main tests the function object `check_tokens`, which is always true,
\* not the value of a call of it.
TokensTestPasses(e) == TRUE

---------------------------------------------------------------------------
(* get_api_answer *)

\* response.json()
ResponseJson(h) ==
    IF h.body.t = "undecodable"
    THEN Raise("JSONDecodeError", "Expecting value")
    ELSE Ok(h.body)

\* get_api_answer with the two branches on answer_code exchanged.
get_api_answer_ErrorFirst(current_timestamp, h) ==
    IF current_timestamp.t \notin {"int", "float"}
    THEN Raise("EndPointError", "Wrong date format")
    ELSE IF h.transport # "ok"
    THEN Raise(h.transport, "transport failure")
    ELSE IF h.status_code = HTTP_OK
    THEN ResponseJson(h)
    ELSE IF h.status_code = HTTP_NOT_FOUND
    THEN Raise("EndPointError", "No API answer: " \o ToString(h.status_code))
    ELSE LET response == ResponseJson(h) IN
         IF response.exc # ""
         THEN response
         ELSE IF response.value.t # "dict"
         THEN Raise("AttributeError", "object has no attribute get")
         ELSE LET answer_code == DictGet(response.value.v, "code")
                  answer_error == DictGet(response.value.v, "error")
              IN  IF Falsy(answer_code)
                  THEN Raise("EndPointError",
                             "No API answer: " \o Format(answer_code))
                  ELSE Raise("EndPointError",
                             "No API answer: " \o Format(answer_error))

get_api_answer(current_timestamp, h) ==
    IF current_timestamp.t \notin {"int", "float"}
    THEN Raise("EndPointError", "Wrong date format")
    ELSE IF h.transport # "ok"
    THEN Raise(h.transport, "transport failure")
    ELSE IF h.status_code = HTTP_OK
    THEN ResponseJson(h)
    ELSE IF h.status_code = HTTP_NOT_FOUND
    THEN Raise("EndPointError", "No API answer: " \o ToString(h.status_code))
    ELSE LET response == ResponseJson(h) IN
         IF response.exc # ""
         THEN response
         ELSE IF response.value.t # "dict"
         THEN Raise("AttributeError", "object has no attribute get")
         ELSE LET answer_code == DictGet(response.value.v, "code")
                  answer_error == DictGet(response.value.v, "error")
              IN  IF Falsy(answer_code)
                  THEN Raise("EndPointError",
                             "No API answer: " \o Format(answer_error))
                  ELSE Raise("EndPointError",
                             "No API answer: " \o Format(answer_code))

---------------------------------------------------------------------------
(* check_response *)

\* check_response testing `not list_homeworks` before the isinstance test.
check_response_EmptyFirst(response) ==
    IF response.t # "dict"
    THEN Raise("TypeError", "API answer is not a dict")
    ELSE IF "homeworks" \notin DOMAIN response.v
    THEN Raise("KeyError", "Dict error on key homeworks")
    ELSE LET homeworks == response.v["homeworks"] IN
         IF Falsy(homeworks)
         THEN Raise("ListEmptyError", "Homework list is empty")
         ELSE IF homeworks.t # "list"
         THEN Raise("TypeError", "homeworks in the API answer is not a list")
         ELSE Ok(homeworks.v)

check_response(response) ==
    IF response.t # "dict"
    THEN Raise("TypeError", "API answer is not a dict")
    ELSE IF "homeworks" \notin DOMAIN response.v
    THEN Raise("KeyError", "Dict error on key homeworks")
    ELSE LET homeworks == response.v["homeworks"] IN
         IF homeworks.t # "list"
         THEN Raise("TypeError", "homeworks in the API answer is not a list")
         ELSE IF homeworks.v = <<>>
         THEN Raise("ListEmptyError", "Homework list is empty")
         ELSE Ok(homeworks.v)

---------------------------------------------------------------------------
(* parse_status *)

\* The message of line 145.
StatusMessage(homework_name, verdict) ==
    "Review status changed for \"" \o homework_name \o "\". " \o verdict

\* parse_status without the test for the key status: homework.get('status')
\* is then None, which is no key of HOMEWORK_VERDICTS.
parse_status_NoStatusKeyTest(homework) ==
    IF DOMAIN homework = {}
    THEN Raise("DictEmptyError", "No homeworks")
    ELSE IF "homework_name" \notin DOMAIN homework
    THEN Raise("KeyError", "Missing key homework_name in API answer")
    ELSE LET homework_status == IF "status" \in DOMAIN homework
                                THEN homework["status"] ELSE "None"
             homework_name == homework["homework_name"]
         IN  IF homework_status \notin DOMAIN HOMEWORK_VERDICTS
             THEN Raise("UndocumentedStatusError",
                        "Undocumented homework status found in API answer: "
                            \o homework_status)
             ELSE Ok(StatusMessage(homework_name,
                                   HOMEWORK_VERDICTS[homework_status]))

\* parse_status without the test of the status against HOMEWORK_VERDICTS:
\* HOMEWORK_VERDICTS.get(status) is then None for an undocumented status.
parse_status_NoVerdictTest(homework) ==
    IF DOMAIN homework = {}
    THEN Raise("DictEmptyError", "No homeworks")
    ELSE IF "homework_name" \notin DOMAIN homework
    THEN Raise("KeyError", "Missing key homework_name in API answer")
    ELSE IF "status" \notin DOMAIN homework
    THEN Raise("KeyError", "Missing key status in API answer")
    ELSE LET homework_status == homework["status"]
             homework_name == homework["homework_name"]
             verdict == IF homework_status \in DOMAIN HOMEWORK_VERDICTS
                        THEN HOMEWORK_VERDICTS[homework_status] ELSE "None"
         IN  Ok(StatusMessage(homework_name, verdict))

parse_status(homework) ==
    IF DOMAIN homework = {}
    THEN Raise("DictEmptyError", "No homeworks")
    ELSE IF "homework_name" \notin DOMAIN homework
    THEN Raise("KeyError", "Missing key homework_name in API answer")
    ELSE IF "status" \notin DOMAIN homework
    THEN Raise("KeyError", "Missing key status in API answer")
    ELSE LET homework_status == homework["status"]
             homework_name == homework["homework_name"]
         IN  IF homework_status \notin DOMAIN HOMEWORK_VERDICTS
             THEN Raise("UndocumentedStatusError",
                        "Undocumented homework status found in API answer: "
                            \o homework_status)
             ELSE Ok(StatusMessage(homework_name,
                                   HOMEWORK_VERDICTS[homework_status]))

---------------------------------------------------------------------------
(* send_message: `outcome` is what bot.send_message does, "" for a delivery *)
(* and otherwise the text of the error the telegram library raises.         *)

send_message(text, outcome) ==
    IF outcome # ""
    THEN Raise("SendMessageError", outcome)
    ELSE Ok(JNull)

---------------------------------------------------------------------------
(* Inputs. *)

\* The sequences over S of length at most n.
SeqUpTo(S, n) == UNION {[1..k -> S] : k \in 0..n}

HomeworkKeys == {"homework_name", "status", "id"}

\* The values a key of a homework record takes in the inputs.
KeyValues(k) ==
    IF k = "homework_name" THEN {"hw1", "hw2"}
    ELSE IF k = "status"
    THEN {"approved", "reviewing", "rejected", "unknown", ""}
    ELSE {"1"}

\* Every homework record over HomeworkKeys, the empty record included.
Homeworks ==
    UNION {{h \in [D -> UNION {KeyValues(k) : k \in D}] :
               \A k \in D : h[k] \in KeyValues(k)} : D \in SUBSET HomeworkKeys}

Homework(name, status) == [homework_name |-> name, status |-> status]

\* The records the poll loop is fed: two homeworks with documented
\* statuses and one with an undocumented status.
LoopHomeworks ==
    {Homework("hw1", "approved"), Homework("hw2", "rejected"),
     Homework("hw1", "unknown")}

\* Decoded response values: non-mappings, mappings without homeworks,
\* mappings whose homeworks is not a list, and mappings with a list.
HomeworksValues ==
    {JNull, JStr("none"), JDict(EmptyDict)}
        \cup {JList(s) : s \in SeqUpTo(LoopHomeworks \cup {EmptyDict}, MaxHomeworks)}

Responses ==
    {JNull, JStr("error"), JInt(0), JList(<<>>),
     JList(<<Homework("hw1", "approved")>>),
     JDict(EmptyDict), JDict([current_date |-> JInt(1)])}
        \cup {JDict([homeworks |-> hv]) : hv \in HomeworksValues}
        \cup {JDict([homeworks |-> hv, current_date |-> JInt(1)]) :
                 hv \in HomeworksValues}

\* Bodies of an error answer: code and error absent, None, empty or set.
ErrorBodies ==
    {JDict(EmptyDict)}
        \cup {JDict([code |-> c]) : c \in {JNull, JStr(""), JStr("UnknownError")}}
        \cup {JDict([error |-> e]) : e \in {JNull, JStr(""), JStr("Internal error")}}
        \cup {JDict([code |-> c, error |-> e]) :
                 c \in {JNull, JStr(""), JStr("UnknownError"), JStr("not_authenticated")},
                 e \in {JNull, JStr(""), JStr("Internal error")}}

Undecodable == [t |-> "undecodable", v |-> ""]

Exchange(transport, status_code, body) ==
    [transport |-> transport, status_code |-> status_code, body |-> body]

\* What requests.get does: raise a transport error, or return a response
\* with a status code and a body.
TransportFailures ==
    {Exchange(tr, 0, JNull) : tr \in {"ConnectionError", "Timeout"}}

Answers ==
    {Exchange("ok", sc, b) :
                 sc \in {HTTP_OK, HTTP_NOT_FOUND, 401, 503},
                 b \in ErrorBodies
                          \cup {Undecodable, JNull, JList(<<>>), JStr("Bad Gateway"),
                                JDict([homeworks |-> JList(<<>>)]),
                                JDict([homeworks |->
                                    JList(<<Homework("hw1", "approved")>>)])}}

Timestamps == {JInt(0), JInt(1), JNull, JStr("now")}

---------------------------------------------------------------------------
(* Calls of the pure functions, one call per behaviour: the argument is    *)
(* drawn initially, the action applies the function to it.                 *)

NoCall == [fn |-> "", given |-> <<>>, arg |-> <<>>, done |-> FALSE, ret |-> Ok(<<>>)]

Pending(fn, arg) ==
    [fn |-> fn, given |-> arg, arg |-> arg, done |-> FALSE, ret |-> Ok(<<>>)]

\* None of the three functions assigns to its argument or to anything
\* reachable from it, so the argument is the same object after the call.
Returned(c, ret) == [c EXCEPT !.done = TRUE, !.ret = ret]

Call_check_response ==
    /\ call.fn = "check_response" /\ ~call.done
    /\ call' = Returned(call, check_response(call.arg))
    /\ UNCHANGED mainVars

Call_parse_status ==
    /\ call.fn = "parse_status" /\ ~call.done
    /\ call' = Returned(call, parse_status(call.arg))
    /\ UNCHANGED mainVars

Call_get_api_answer ==
    /\ call.fn = "get_api_answer" /\ ~call.done
    /\ call' = Returned(call, get_api_answer(call.arg.current_timestamp,
                                             call.arg.exchange))
    /\ UNCHANGED mainVars

---------------------------------------------------------------------------
(* main *)

\* int(time.time())
Now == JInt(0)

\* The exchanges the poll loop meets: a connection failure, HTTP 404,
\* HTTP 503 with an error code, and HTTP 200 with a homeworks list.
LoopExchanges ==
    {Exchange("ConnectionError", 0, JNull),
     Exchange("ok", HTTP_NOT_FOUND, JStr("Not Found")),
     Exchange("ok", 503, JDict([code |-> JStr("UnknownError")]))}
        \cup {Exchange("ok", HTTP_OK, JDict([homeworks |-> JList(s)])) :
                 s \in SeqUpTo(LoopHomeworks, MaxHomeworks)}

\* What bot.send_message does: deliver (""), or raise a telegram error.
SendOutcomes == {"", "Timed out"}

\* Bot(token=str(TELEGRAM_TOKEN)): with the variable unset the token is the
\* text "None", which the telegram library rejects (InvalidToken) or
\* accepts depending on its version.
BotOutcomes(e) == IF e.TELEGRAM_TOKEN THEN {TRUE} ELSE {TRUE, FALSE}

NoError == Raise("", "")
NoExchange == Exchange("", 0, JNull)
NoCycle == [http |-> NoExchange, log |-> <<>>, message |-> "", notified |-> ""]

Request == [ev |-> "request", kind |-> "", text |-> "", delivered |-> FALSE, record |-> 0]
Delay == [ev |-> "delay", kind |-> "", text |-> "", delivered |-> FALSE, record |-> 0]
Sleep ==
    [ev |-> "sleep", kind |-> "", text |-> "", delivered |-> FALSE, record |-> 0]
Notify(kind, text, delivered, record) ==
    [ev |-> "notify", kind |-> kind, text |-> text, delivered |-> delivered,
     record |-> record]

\* Lines 163-173: the credential test, the Bot, the initial loop state.
Startup ==
    /\ pc = "start"
    /\ IF ~TokensTestPasses(env)
       THEN pc' = "halted"
       ELSE \E bot_ok \in BotOutcomes(env) :
                pc' = IF bot_ok THEN "fetch" ELSE "crashed"
    /\ error_message' = ""
    /\ current_report' = EmptyDict
    /\ prev_report' = EmptyDict
    /\ UNCHANGED <<env, list_homeworks, idx, error, message, http, log,
                   prev_cycle, notified, call,
                   last_delivered>>

\* Lines 176-179: one request and the validation of its answer.
Fetch ==
    /\ pc = "fetch"
    /\ \E h \in LoopExchanges :
           LET answer == get_api_answer(Now, h)
               checked == IF answer.exc = ""
                          THEN check_response(answer.value)
                          ELSE answer
           IN  /\ http' = h
               /\ log' = Append(log, Request)
               /\ IF checked.exc = ""
                  THEN /\ list_homeworks' = checked.value
                       /\ idx' = 1
                       /\ pc' = IF checked.value = <<>>
                                THEN "retry_sleep" ELSE "record"
                       /\ UNCHANGED error
                  ELSE /\ error' = checked
                       /\ pc' = "except"
                       /\ UNCHANGED <<list_homeworks, idx>>
    /\ UNCHANGED <<env, error_message, current_report, prev_report, message,
                   prev_cycle, notified, call,
                   last_delivered>>

\* The dict literal of lines 181-185, once parse_status has returned.
Report(homework, text) ==
    [homework_name |-> homework["homework_name"],
     message |-> text,
     homework_status |-> homework["status"]]

\* Lines 180-190 without the comparison of line 190.
TranslateRecord_AlwaysNotify ==
    /\ pc = "record"
    /\ LET homework == list_homeworks[idx]
           parsed == parse_status(homework)
       IN  IF parsed.exc # ""
           THEN /\ error' = parsed
                /\ pc' = "except"
                /\ UNCHANGED current_report
           ELSE /\ current_report' = Report(homework, parsed.value)
                /\ pc' = "send_status"
                /\ UNCHANGED error
    /\ UNCHANGED <<env, error_message, prev_report, list_homeworks, idx,
                   message, http, log, prev_cycle, notified, call,
                   last_delivered>>

\* Lines 180-190: the next record is translated and compared.
TranslateRecord ==
    /\ pc = "record"
    /\ LET homework == list_homeworks[idx]
           parsed == parse_status(homework)
       IN  IF parsed.exc # ""
           THEN /\ error' = parsed
                /\ pc' = "except"
                /\ UNCHANGED current_report
           ELSE /\ current_report' = Report(homework, parsed.value)
                /\ pc' = IF current_report' # prev_report
                         THEN "send_status" ELSE "message_delay"
                /\ UNCHANGED error
    /\ UNCHANGED <<env, error_message, prev_report, list_homeworks, idx,
                   message, http, log, prev_cycle, notified, call,
                   last_delivered>>

\* Lines 191-192 with the assignment placed before the call.
SendStatus_StoreFirst ==
    /\ pc = "send_status"
    /\ prev_report' = current_report
    /\ \E outcome \in SendOutcomes :
           LET sent == send_message(current_report["message"], outcome) IN
           /\ log' = Append(log, Notify("status", current_report["message"],
                                        sent.exc = "", idx))
           /\ IF sent.exc = ""
              THEN /\ pc' = "store_report"
                   /\ last_delivered' = current_report
                   /\ UNCHANGED error
              ELSE /\ pc' = "except"
                   /\ error' = sent
                   /\ UNCHANGED last_delivered
    /\ UNCHANGED <<env, error_message, current_report, list_homeworks, idx,
                   message, http, prev_cycle, notified, call>>

\* Line 191 with the call repeated when the delivery fails.
SendStatus_Retry ==
    /\ pc = "send_status"
    /\ \E outcome \in SendOutcomes :
           LET sent == send_message(current_report["message"], outcome) IN
           /\ log' = Append(log, Notify("status", current_report["message"],
                                        sent.exc = "", idx))
           /\ IF sent.exc = ""
              THEN /\ pc' = "store_report"
                   /\ last_delivered' = current_report
              ELSE /\ pc' = "send_status"
                   /\ UNCHANGED last_delivered
    /\ UNCHANGED <<env, error_message, current_report, prev_report,
                   list_homeworks, idx, error, message, http, prev_cycle,
                   notified, call>>

\* Line 191: the status notification.
SendStatus ==
    /\ pc = "send_status"
    /\ \E outcome \in SendOutcomes :
           LET sent == send_message(current_report["message"], outcome) IN
           /\ log' = Append(log, Notify("status", current_report["message"],
                                        sent.exc = "", idx))
           /\ IF sent.exc = ""
              THEN /\ pc' = "store_report"
                   /\ last_delivered' = current_report
                   /\ UNCHANGED error
              ELSE /\ pc' = "except"
                   /\ error' = sent
                   /\ UNCHANGED last_delivered
    /\ UNCHANGED <<env, error_message, current_report, prev_report,
                   list_homeworks, idx, message, http, prev_cycle, notified,
                   call>>

\* Line 192 without its assignment.
StoreReport_Forget ==
    /\ pc = "store_report"
    /\ pc' = "message_delay"
    /\ UNCHANGED <<env, error_message, current_report, prev_report,
                   list_homeworks, idx, error, message, http, log, prev_cycle,
                   notified, call,
                   last_delivered>>

\* Line 192.
StoreReport ==
    /\ pc = "store_report"
    /\ prev_report' = current_report
    /\ pc' = "message_delay"
    /\ UNCHANGED <<env, error_message, current_report, list_homeworks, idx,
                   error, message, http, log, prev_cycle, notified, call,
                   last_delivered>>

\* Line 193, and the step of the for loop.
MessageDelay ==
    /\ pc = "message_delay"
    /\ log' = Append(log, Delay)
    /\ idx' = idx + 1
    /\ pc' = IF idx < Len(list_homeworks) THEN "record" ELSE "retry_sleep"
    /\ UNCHANGED <<env, error_message, current_report, prev_report,
                   list_homeworks, error, message, http, prev_cycle, notified,
                   call,
                   last_delivered>>

\* Lines 194-197 without the comparison with the stored diagnostic.
HandleError_NoDedup ==
    /\ pc = "except"
    /\ message' = "Program failure - [" \o ExcStr(error) \o "]"
    /\ pc' = "send_failure"
    /\ UNCHANGED <<env, error_message, current_report, prev_report,
                   list_homeworks, idx, error, http, log, prev_cycle, notified,
                   call,
                   last_delivered>>

\* Lines 194-197: the diagnostic of the caught exception, and its
\* comparison with the stored one.
HandleError ==
    /\ pc = "except"
    /\ message' = "Program failure - [" \o ExcStr(error) \o "]"
    /\ pc' = IF error_message # message' THEN "send_failure" ELSE "retry_sleep"
    /\ UNCHANGED <<env, error_message, current_report, prev_report,
                   list_homeworks, idx, error, http, log, prev_cycle, notified,
                   call,
                   last_delivered>>

\* Line 198: the failure notification. It is sent inside the except clause,
\* so a SendMessageError it raises is caught by nothing in main(), and the
\* module's entry point catches KeyboardInterrupt only.
SendFailure ==
    /\ pc = "send_failure"
    /\ \E outcome \in SendOutcomes :
           LET sent == send_message(message, outcome) IN
           /\ log' = Append(log, Notify("failure", message, sent.exc = "", 0))
           /\ IF sent.exc = ""
              THEN pc' = "store_error" /\ notified' = message
              ELSE pc' = "crashed" /\ UNCHANGED notified
    /\ UNCHANGED <<env, error_message, current_report, prev_report,
                   list_homeworks, idx, error, message, http, prev_cycle, call,
                   last_delivered>>

\* Line 199 followed by the next request, without the sleep of line 200.
StoreError_Retry ==
    /\ pc = "store_error"
    /\ error_message' = message
    /\ pc' = "fetch"
    /\ UNCHANGED <<env, current_report, prev_report, list_homeworks, idx,
                   error, message, http, log, prev_cycle, notified, call,
                   last_delivered>>

\* Line 199.
StoreError ==
    /\ pc = "store_error"
    /\ error_message' = message
    /\ pc' = "retry_sleep"
    /\ UNCHANGED <<env, current_report, prev_report, list_homeworks, idx,
                   error, message, http, log, prev_cycle, notified, call,
                   last_delivered>>

\* Line 200 with the stored diagnostic reset after a cycle without failure.
RetrySleep_ClearOnSuccess ==
    /\ pc = "retry_sleep"
    /\ pc' = "fetch"
    /\ error_message' = IF message = "" THEN "" ELSE error_message
    /\ prev_cycle' = [http |-> http, log |-> Append(log, Sleep),
                      message |-> message, notified |-> notified]
    /\ http' = NoExchange
    /\ log' = <<>>
    /\ message' = ""
    /\ error' = NoError
    /\ list_homeworks' = <<>>
    /\ idx' = 0
    /\ UNCHANGED <<env, current_report, prev_report, notified, call,
                   last_delivered>>

\* Line 200, and the start of the next iteration: the names bound inside
\* the loop body are bound again before they are read.
RetrySleep ==
    /\ pc = "retry_sleep"
    /\ pc' = "fetch"
    /\ prev_cycle' = [http |-> http, log |-> Append(log, Sleep),
                      message |-> message, notified |-> notified]
    /\ http' = NoExchange
    /\ log' = <<>>
    /\ message' = ""
    /\ error' = NoError
    /\ list_homeworks' = <<>>
    /\ idx' = 0
    /\ UNCHANGED <<env, error_message, current_report, prev_report, notified,
                   call,
                   last_delivered>>

---------------------------------------------------------------------------
(* Specifications. *)

\* The environments main() starts in: every variable set, or one unset.
Environments ==
    {e \in [PRACTICUM_TOKEN : BOOLEAN, TELEGRAM_TOKEN : BOOLEAN,
            TELEGRAM_CHAT_ID : BOOLEAN] :
        \A a, b \in DOMAIN e : ~e[a] /\ ~e[b] => a = b}

\* The process at the call of main().
Init ==
    /\ env \in Environments
    /\ pc = "start"
    /\ error_message = ""
    /\ current_report = EmptyDict
    /\ prev_report = EmptyDict
    /\ list_homeworks = <<>>
    /\ idx = 0
    /\ error = NoError
    /\ message = ""
    /\ http = NoExchange
    /\ log = <<>>
    /\ prev_cycle = NoCycle
    /\ notified = ""
    /\ last_delivered = EmptyDict
    /\ call = NoCall

Next ==
    \/ Startup
    \/ Fetch
    \/ TranslateRecord
    \/ SendStatus
    \/ StoreReport
    \/ MessageDelay
    \/ HandleError
    \/ SendFailure
    \/ StoreError
    \/ RetrySleep

Spec == Init /\ [][Next]_vars

\* One call of a pure function on an argument drawn from the inputs.
InitCalls ==
    /\ env = [PRACTICUM_TOKEN |-> TRUE, TELEGRAM_TOKEN |-> TRUE,
              TELEGRAM_CHAT_ID |-> TRUE]
    /\ pc = "start"
    /\ error_message = ""
    /\ current_report = EmptyDict
    /\ prev_report = EmptyDict
    /\ list_homeworks = <<>>
    /\ idx = 0
    /\ error = NoError
    /\ message = ""
    /\ http = NoExchange
    /\ log = <<>>
    /\ prev_cycle = NoCycle
    /\ notified = ""
    /\ last_delivered = EmptyDict
    /\ \/ \E ts \in Timestamps, x \in TransportFailures :
              call = Pending("get_api_answer",
                             [current_timestamp |-> ts, exchange |-> x])
       \/ \E ts \in Timestamps, x \in Answers :
              call = Pending("get_api_answer",
                             [current_timestamp |-> ts, exchange |-> x])
       \/ \E r \in Responses : call = Pending("check_response", r)
       \/ \E h \in Homeworks : call = Pending("parse_status", h)

NextCalls ==
    \/ Call_check_response
    \/ Call_parse_status
    \/ Call_get_api_answer

SpecCalls == InitCalls /\ [][NextCalls]_vars

---------------------------------------------------------------------------
(* Observations on the events of a cycle. *)

Notifications(l) == SelectSeq(l, LAMBDA e : e.ev = "notify")
StatusNotifications(l) ==
    SelectSeq(l, LAMBDA e : e.ev = "notify" /\ e.kind = "status")
FailureNotifications(l) ==
    SelectSeq(l, LAMBDA e : e.ev = "notify" /\ e.kind = "failure")
Requests(l) == SelectSeq(l, LAMBDA e : e.ev = "request")

\* The exchange is an HTTP 200 answer carrying a homeworks list.
HasHomeworksList(x) ==
    /\ x.transport = "ok"
    /\ x.status_code = HTTP_OK
    /\ x.body.t = "dict"
    /\ "homeworks" \in DOMAIN x.body.v
    /\ x.body.v["homeworks"].t = "list"

HomeworksOf(x) == x.body.v["homeworks"].v

Documented(h) ==
    /\ {"homework_name", "status"} \subseteq DOMAIN h
    /\ h["status"] \in {"approved", "reviewing", "rejected"}

Undocumented(h) ==
    /\ {"homework_name", "status"} \subseteq DOMAIN h
    /\ h["status"] \notin {"approved", "reviewing", "rejected"}

---------------------------------------------------------------------------
(* C1: if one of the three credentials is absent at startup, the process   *)
(* halts before the poll loop: no API request is issued and the Notifier   *)
(* is never called.  Stated as the claim has it; main() tests the function *)
(* object instead of calling it, so the loop is entered all the same.      *)
C1_NoCallsWithoutCredentials ==
    ~check_tokens(env) => log = <<>> /\ prev_cycle = NoCycle

(* C2: once the poll loop has been entered nothing terminates the process, *)
(* a failed delivery of the failure notification included.  Stated as the  *)
(* claim has it, for a process started with all three credentials (which   *)
(* always enters the loop): it is never found terminated.                  *)
C2_LoopNeverTerminates ==
    check_tokens(env) => pc # "crashed"

(* C3, as claimed: a cycle that fails with text T sends exactly one        *)
(* failure notification when it is the first of a run of cycles failing    *)
(* with T (the cycle before it did not fail with T), and none otherwise.   *)
(* A failing cycle that reaches the long sleep had its failure             *)
(* notification, if any, delivered.  Stated for a process started with    *)
(* all three credentials.                                                  *)
C3_OnePerRun ==
    check_tokens(env) /\ pc = "retry_sleep" /\ message # "" =>
        Len(FailureNotifications(log)) =
            (IF prev_cycle.message = message THEN 0 ELSE 1)

(* C3, amended: a cycle that fails with text T sends a failure             *)
(* notification exactly when T differs from the text of the last failure   *)
(* notification delivered before the cycle (none initially), and that      *)
(* notification carries T.  So in a run of cycles failing with T only the  *)
(* first can send one, and it does unless T was the last failure text      *)
(* delivered before the run.                                               *)
C3_OnePerTextChange ==
    pc = "retry_sleep" /\ message # "" =>
        /\ Len(FailureNotifications(log)) =
               (IF prev_cycle.notified = message THEN 0 ELSE 1)
        /\ \A i \in DOMAIN FailureNotifications(log) :
               FailureNotifications(log)[i].text = message
        /\ prev_cycle.message = message => FailureNotifications(log) = <<>>

\* The second of two cycles failing with the same text: the first sent the
\* failure notification, the second sent none.
C3_Witness ==
    /\ check_tokens(env)
    /\ pc = "retry_sleep"
    /\ message # ""
    /\ prev_cycle.message = message
    /\ Len(FailureNotifications(prev_cycle.log)) = 1
    /\ FailureNotifications(log) = <<>>

\* The exchange returned a valid response with a single homework record.
SingleValidRecord(x) ==
    /\ HasHomeworksList(x)
    /\ Len(HomeworksOf(x)) = 1
    /\ Documented(HomeworksOf(x)[1])

\* The cycle under way fetched the response the previous cycle fetched, a
\* valid response with a single record, and the previous cycle's status
\* notification was delivered.
C4_SameResponseTwice ==
    /\ SingleValidRecord(http)
    /\ SingleValidRecord(prev_cycle.http)
    /\ HomeworksOf(http) = HomeworksOf(prev_cycle.http)
    /\ \E i \in DOMAIN StatusNotifications(prev_cycle.log) :
           StatusNotifications(prev_cycle.log)[i].delivered

(* C4: when the same valid single-record response is fetched in two        *)
(* consecutive cycles and the first cycle's notification is delivered, the  *)
(* Notifier is invoked once over the two cycles: once in the first, and at  *)
(* no point of the second, which also raises nothing.                       *)
C4_NotifiedOnce ==
    C4_SameResponseTwice =>
        /\ Len(Notifications(prev_cycle.log)) = 1
        /\ Notifications(log) = <<>>
        /\ pc \notin {"send_status", "store_report", "except", "send_failure",
                      "store_error", "crashed"}

\* The second cycle is over.
C4_Witness ==
    check_tokens(env) /\ C4_SameResponseTwice /\ pc = "retry_sleep"

(* C5: in a cycle whose response is a mapping with an empty homeworks list *)
(* the Notifier is not called at all, from any state of the loop.  Stated  *)
(* as the claim has it, for a process started with all three credentials; *)
(* the empty-list error is raised, caught by the loop and notified as a    *)
(* failure.                                                                *)
C5_EmptyListNoNotifier ==
    check_tokens(env) /\ HasHomeworksList(http) /\ HomeworksOf(http) = <<>> =>
        Notifications(log) = <<>>

---------------------------------------------------------------------------
(* Claims about the pure functions, under SpecCalls. *)

Called(fn) == call.fn = fn /\ call.done

LacksRequiredKey(h) ==
    "homework_name" \notin DOMAIN h \/ "status" \notin DOMAIN h

(* C6, as claimed: for every record that lacks homework_name or status,    *)
(* the record with no keys included, parse_status fails with KeyError and  *)
(* returns no message.                                                     *)
C6_MissingKeyIsKeyError ==
    Called("parse_status") /\ LacksRequiredKey(call.given) =>
        call.ret.exc = "KeyError"

(* C6, amended: for every record with at least one key that lacks          *)
(* homework_name or status parse_status fails with KeyError; for the       *)
(* record with no keys it fails with DictEmptyError; in both cases it      *)
(* returns no message.                                                     *)
C6_MissingKeyOrEmpty ==
    Called("parse_status") /\ LacksRequiredKey(call.given) =>
        /\ call.ret.exc =
               (IF DOMAIN call.given = {} THEN "DictEmptyError" ELSE "KeyError")
        /\ call.ret.value = <<>>

\* parse_status has failed on a record that carries a name and no status.
C6_Witness ==
    /\ Called("parse_status")
    /\ DOMAIN call.given = {"homework_name", "id"}
    /\ call.ret.exc = "KeyError"

C9_TypedErrors ==
    Called("get_api_answer") =>
        LET x == call.given.exchange
            ret == call.ret
        IN  IF call.given.current_timestamp.t \notin {"int", "float"}
            THEN ret.exc = "EndPointError"
            ELSE IF x.transport # "ok" \/ x.status_code # 200
            THEN ret.exc = "EndPointError"
            ELSE IF x.body.t = "undecodable"
            THEN ret.exc = "JSONDecodeError"
            ELSE ret.exc = ""

\* The text the error of a non-200, non-404 answer carries.
Carried(body) ==
    IF "code" \in DOMAIN body /\ body["code"].t = "str" /\ body["code"].v # ""
    THEN body["code"].v
    ELSE IF "error" \notin DOMAIN body \/ body["error"].t = "null"
    THEN "None"
    ELSE body["error"].v

ErrorAnswer(x) ==
    /\ x.transport = "ok"
    /\ x.status_code \notin {200, 404}
    /\ x.body.t = "dict"

(* C10: for a status other than 200 and 404 with a decodable mapping body, *)
(* get_api_answer fails with an EndPointError whose message carries the    *)
(* body's code when it is present and non-empty, and otherwise the body's  *)
(* error value (None when there is none).                                  *)
C10_CodeThenError ==
    /\ Called("get_api_answer")
    /\ call.given.current_timestamp.t = "int"
    /\ ErrorAnswer(call.given.exchange)
    => /\ call.ret.exc = "EndPointError"
       /\ call.ret.text = "No API answer: " \o Carried(call.given.exchange.body.v)

\* HTTP 503 with the body {"code": "UnknownError"}.
C10_Witness ==
    /\ Called("get_api_answer")
    /\ call.given.current_timestamp.t = "int"
    /\ call.given.exchange.status_code = 503
    /\ call.given.exchange.body = JDict([code |-> JStr("UnknownError")])
    /\ call.ret.text = "No API answer: UnknownError"

---------------------------------------------------------------------------
(* C8: for every record carrying both keys whose status is none of         *)
(* approved, reviewing, rejected, parse_status fails with                  *)
(* UndocumentedStatusError; so the poll loop, on reaching such a record,   *)
(* goes to its except clause with that error, sends no status              *)
(* notification for the record, and never stores a report with such a      *)
(* status as the previous report.                                          *)
C8_UndocumentedNeverReported ==
    /\ \A h \in Homeworks :
           Undocumented(h) => parse_status(h).exc = "UndocumentedStatusError"
    /\ \A i \in DOMAIN StatusNotifications(log) :
           Documented(list_homeworks[StatusNotifications(log)[i].record])
    /\ idx \in DOMAIN list_homeworks /\ Undocumented(list_homeworks[idx]) =>
           /\ pc \in {"record", "except", "send_failure", "store_error",
                      "retry_sleep", "crashed"}
           /\ pc # "record" => error.exc = "UndocumentedStatusError"
    /\ prev_report # EmptyDict =>
           prev_report["homework_status"] \in {"approved", "reviewing", "rejected"}

\* The second record of a response has an undocumented status: the first
\* was notified, the loop is in its except clause.
C8_Witness ==
    /\ check_tokens(env)
    /\ pc = "except"
    /\ idx = 2
    /\ Undocumented(list_homeworks[2])
    /\ error.exc = "UndocumentedStatusError"
    /\ Len(StatusNotifications(log)) = 1

---------------------------------------------------------------------------
(* Claims about the processing of one record. *)

\* The Notifier has been invoked with the status of record i this cycle.
NotifiedFor(i) ==
    \E k \in DOMAIN log :
        log[k].ev = "notify" /\ log[k].kind = "status" /\ log[k].record = i

LastEvent == log[Len(log)]

(* C11, as claimed: once the Notifier has been invoked for the record      *)
(* being processed, its report differing from the stored one, the record's *)
(* report becomes the stored previous report (line 192 is the step after   *)
(* the invocation).  Stated for a process started with all three           *)
(* credentials.                                                            *)
C11_NotifiedIsStored ==
    /\ check_tokens(env)
    /\ idx \in DOMAIN list_homeworks
    /\ NotifiedFor(idx)
    /\ pc # "store_report"
    => prev_report = current_report

(* C11, amended: for each record processed in a cycle, if its report       *)
(* differs from the stored previous report the Notifier is invoked with    *)
(* the report's message, and the report becomes the stored previous report *)
(* when that delivery succeeds; when the delivery fails the stored report  *)
(* is unchanged and the cycle goes to its except clause.  If the report is *)
(* identical the Notifier is not invoked for the record and the stored     *)
(* report is unchanged.                                                    *)
C11_NotifyThenStore ==
    [][/\ pc = "record" /\ pc' # "except" =>
           /\ pc' = (IF current_report' # prev_report
                     THEN "send_status" ELSE "message_delay")
           /\ prev_report' = prev_report
           /\ log' = log
       /\ pc = "send_status" =>
           /\ Len(log') = Len(log) + 1
           /\ log'[Len(log')].ev = "notify"
           /\ log'[Len(log')].kind = "status"
           /\ log'[Len(log')].record = idx
           /\ log'[Len(log')].text = current_report["message"]
           /\ prev_report' = prev_report
           /\ pc' = (IF log'[Len(log')].delivered
                     THEN "store_report" ELSE "except")
       /\ pc = "store_report" =>
           prev_report' = current_report /\ pc' = "message_delay"
       /\ pc = "message_delay" =>
           /\ prev_report' = prev_report
           /\ Notifications(log') = Notifications(log)
           /\ prev_report = current_report
           /\ NotifiedFor(idx) <=>
                  (LastEvent.ev = "notify" /\ LastEvent.delivered)
       /\ pc = "except" => prev_report' = prev_report]_vars

\* The delivery of a status notification has failed: the report that
\* differs from the stored one has not been stored.
C11_Witness ==
    /\ check_tokens(env)
    /\ pc = "except"
    /\ LastEvent.ev = "notify"
    /\ LastEvent.kind = "status"
    /\ ~LastEvent.delivered
    /\ current_report # prev_report
    /\ prev_report # EmptyDict

---------------------------------------------------------------------------
(* Claims about the single slot prev_report. *)

\* The exchange is a valid response with two records whose reports differ.
TwoRecordResponse(x) ==
    /\ HasHomeworksList(x)
    /\ Len(HomeworksOf(x)) = 2
    /\ Documented(HomeworksOf(x)[1])
    /\ Documented(HomeworksOf(x)[2])
    /\ HomeworksOf(x)[1] # HomeworksOf(x)[2]

\* The report main() builds for record i of the response under way.
ReportOf(i) ==
    Report(HomeworksOf(http)[i], parse_status(HomeworksOf(http)[i]).value)

\* The cycle under way fetched the two-record response the previous cycle
\* fetched.
C12_SameTwoRecords ==
    /\ TwoRecordResponse(http)
    /\ prev_cycle.http = http

(* C12, as claimed: when a response with two records whose reports differ  *)
(* is returned unchanged by consecutive cycles, both records are notified  *)
(* again in every cycle.  Stated at the end of a later cycle in which      *)
(* nothing failed, for a process started with all three credentials.       *)
C12_BothEveryCycle ==
    /\ check_tokens(env)
    /\ C12_SameTwoRecords
    /\ pc = "retry_sleep"
    /\ message = ""
    => NotifiedFor(1) /\ NotifiedFor(2)

(* C12, amended: prev_report is a single slot shared by all records.  When *)
(* a response with two records whose reports differ is returned unchanged  *)
(* every cycle, no cycle is notification-free: the Notifier is invoked for *)
(* at least one of the two records.  While status deliveries succeed, each *)
(* record overwrites the other's stored report, so a cycle that follows a  *)
(* cycle without failure and has no failure itself notifies both records   *)
(* and ends with the second record's report stored.                        *)
C12_SingleSlot ==
    /\ TwoRecordResponse(http) /\ pc = "retry_sleep"
       => StatusNotifications(log) # <<>>
    /\ C12_SameTwoRecords /\ prev_cycle.message = ""
       /\ pc = "message_delay"
       => /\ NotifiedFor(idx)
          /\ prev_report = ReportOf(idx)
    /\ C12_SameTwoRecords /\ prev_cycle.message = ""
       /\ pc = "retry_sleep" /\ message = ""
       => /\ Len(StatusNotifications(log)) = 2
          /\ NotifiedFor(1) /\ NotifiedFor(2)
          /\ \A k \in 1..2 : StatusNotifications(log)[k].delivered
          /\ prev_report = ReportOf(2)

\* Two consecutive cycles without failure on the same two-record response:
\* the later one has notified both records again.
C12_Witness ==
    /\ check_tokens(env)
    /\ C12_SameTwoRecords
    /\ prev_cycle.message = ""
    /\ pc = "retry_sleep"
    /\ message = ""
    /\ Len(StatusNotifications(log)) = 2

---------------------------------------------------------------------------
(* Claims about the pacing of the loop. *)

Sleeps(l) == SelectSeq(l, LAMBDA e : e.ev = "sleep")

(* C13: each cycle issues exactly one API request, the first event of the  *)
(* cycle, and between two consecutive API requests the long sleep is taken *)
(* exactly once, as the last event of the earlier cycle, whether that      *)
(* cycle succeeded or failed.                                              *)
C13_OneRequestOneSleep ==
    /\ Len(Requests(log)) <= 1
    /\ Sleeps(log) = <<>>
    /\ pc \in {"start", "fetch", "halted"} => log = <<>>
    /\ log # <<>> => log[1] = Request
    /\ pc = "retry_sleep" => Len(Requests(log)) = 1
    /\ prev_cycle # NoCycle =>
        /\ Len(Requests(prev_cycle.log)) = 1
        /\ prev_cycle.log[1] = Request
        /\ Len(Sleeps(prev_cycle.log)) = 1
        /\ prev_cycle.log[Len(prev_cycle.log)] = Sleep
        /\ Len(Requests(prev_cycle.log \o log)) = 2 =>
               Len(Sleeps(prev_cycle.log \o log)) = 1

\* A cycle that failed has ended and the next cycle has issued its request.
C13_Witness ==
    /\ check_tokens(env)
    /\ prev_cycle.message # ""
    /\ pc = "retry_sleep"
    /\ Len(Requests(prev_cycle.log \o log)) = 2

(* C14, as claimed: within a cycle the short delay is taken after a record *)
(* only when a notification was sent for that record, so every short delay *)
(* directly follows a status notification; a record whose report equals    *)
(* the stored previous report is passed without delay.  Stated for a       *)
(* process started with all three credentials, on responses with a single  *)
(* valid record.                                                           *)
C14_DelayOnlyAfterNotification ==
    check_tokens(env) /\ SingleValidRecord(http) =>
        \A k \in DOMAIN log :
            log[k] = Delay =>
                /\ k > 1
                /\ log[k - 1].ev = "notify"
                /\ log[k - 1].kind = "status"

---------------------------------------------------------------------------
(* Claims about what the loop remembers. *)

(* C15: the stored previous report changes only in the step that directly  *)
(* follows a successful delivery of a status notification, and then equals *)
(* the report just delivered; every other step (a failed status delivery,  *)
(* a failure notification, a fetch, validation or translation error, the   *)
(* sleeps) leaves it unchanged.  Outside that one step it equals the last  *)
(* status report delivered, and is empty if none was.                      *)
C15_StoredIsLastDelivered ==
    /\ [](pc # "store_report" => prev_report = last_delivered)
    /\ [][/\ prev_report' # prev_report =>
               /\ pc = "store_report"
               /\ LastEvent.ev = "notify"
               /\ LastEvent.kind = "status"
               /\ LastEvent.delivered
               /\ LastEvent.text = current_report["message"]
               /\ prev_report' = current_report
               /\ prev_report' = last_delivered
          /\ pc = "store_report" => prev_report' = current_report
          /\ pc # "store_report" => prev_report' = prev_report]_vars

\* A status delivery has failed after an earlier one was stored: the stored
\* report is still the earlier one.
C15_Witness ==
    /\ check_tokens(env)
    /\ pc = "except"
    /\ LastEvent.ev = "notify"
    /\ LastEvent.kind = "status"
    /\ ~LastEvent.delivered
    /\ prev_report # EmptyDict
    /\ prev_report = last_delivered
    /\ prev_report # current_report
    /\ idx > 1

\* The cycle under way fails with the text of the last failure notification
\* delivered, and the cycle before it had no failure: the outage with that
\* text is over and a second one has begun.
C16_SecondOutage ==
    /\ pc = "retry_sleep"
    /\ message # ""
    /\ prev_cycle # NoCycle
    /\ prev_cycle.message = ""
    /\ prev_cycle.notified = message

(* C16: the stored last-error text is never cleared.  It changes in one    *)
(* step only, the one that directly follows a delivered failure            *)
(* notification, where it takes that notification's text; cycles without   *)
(* failure and status notifications leave it unchanged.  Hence when a      *)
(* failure with text T, one or more cycles without failure and a failure   *)
(* with the same text T follow each other, the second outage produces no   *)
(* failure notification.                                                   *)
C16_NeverCleared ==
    /\ [](pc # "store_error" => error_message = notified)
    /\ [](C16_SecondOutage => FailureNotifications(log) = <<>>)
    /\ [][/\ error_message' # error_message =>
               /\ pc = "store_error"
               /\ LastEvent.ev = "notify"
               /\ LastEvent.kind = "failure"
               /\ LastEvent.delivered
               /\ error_message' = LastEvent.text
               /\ error_message' # ""
          /\ pc = "retry_sleep" /\ message = "" =>
               error_message' = error_message
          /\ pc \in {"send_status", "store_report", "message_delay"} =>
               error_message' = error_message]_vars

\* The second outage with the text already notified, after a cycle in which
\* a status notification was delivered.
C16_Witness ==
    /\ check_tokens(env)
    /\ C16_SecondOutage
    /\ error_message = message
    /\ \E k \in DOMAIN prev_cycle.log :
           /\ prev_cycle.log[k].ev = "notify"
           /\ prev_cycle.log[k].kind = "status"
           /\ prev_cycle.log[k].delivered

---------------------------------------------------------------------------
(* Claims about a failure in the middle of a response. *)

Delays(l) == SelectSeq(l, LAMBDA e : e = Delay)

\* The translator or the Notifier has failed on record idx of the response.
RecordFailed ==
    /\ idx \in DOMAIN list_homeworks
    /\ pc \in {"except", "send_failure", "store_error", "retry_sleep",
               "crashed"}

\* After a failure on record idx no later record has been processed, and
\* what was delivered for the earlier records is still stored.
C17_NoLaterRecord ==
    RecordFailed =>
        /\ \A k \in DOMAIN log :
               log[k].ev = "notify" /\ log[k].kind = "status" =>
                   log[k].record <= idx
        /\ Len(Delays(log)) = idx - 1
        /\ prev_report = last_delivered

(* C17, as claimed: when the translator or the Notifier fails on the k-th  *)
(* record of a response, no record after the k-th is translated, compared  *)
(* or notified in that cycle, the status notifications delivered for the   *)
(* earlier records stay delivered and recorded, and the cycle goes on to   *)
(* the failure-notification step and the long sleep: the loop does not end *)
(* there.  Stated for a process started with all three credentials.        *)
C17_FailureThenSleep ==
    check_tokens(env) /\ RecordFailed =>
        /\ C17_NoLaterRecord
        /\ pc # "crashed"

---------------------------------------------------------------------------
(* Claims about the number of Notifier calls. *)

StatusNotificationsFor(l, i) ==
    SelectSeq(l, LAMBDA e : e.ev = "notify" /\ e.kind = "status"
                            /\ e.record = i)

(* C18: in every cycle the Notifier is invoked at most once per record of  *)
(* the response for a status notification, and at most once for a failure *)
(* notification: a cycle with n records makes at most n + 1 Notifier       *)
(* calls, and a cycle whose fetch or validation fails makes at most one.   *)
C18_BoundedCalls ==
    /\ \A i \in 1..MaxHomeworks + 1 :
           Len(StatusNotificationsFor(log, i)) <= 1
    /\ \A k \in DOMAIN log :
           log[k].ev = "notify" /\ log[k].kind = "status" =>
               log[k].record \in DOMAIN list_homeworks
    /\ Len(FailureNotifications(log)) <= 1
    /\ Len(StatusNotifications(log)) + Len(FailureNotifications(log))
           = Len(Notifications(log))
    /\ Len(Notifications(log)) <= Len(list_homeworks) + 1
    /\ list_homeworks = <<>> => Len(Notifications(log)) <= 1
    /\ prev_cycle # NoCycle =>
           /\ Len(FailureNotifications(prev_cycle.log)) <= 1
           /\ Len(Notifications(prev_cycle.log)) <= MaxHomeworks + 1
           /\ ~HasHomeworksList(prev_cycle.http) =>
                  Len(Notifications(prev_cycle.log)) <= 1
           /\ HasHomeworksList(prev_cycle.http) =>
                  Len(Notifications(prev_cycle.log))
                      <= Len(HomeworksOf(prev_cycle.http)) + 1

\* A cycle with two records has made three Notifier calls.
C18_Witness ==
    /\ check_tokens(env)
    /\ Len(list_homeworks) = 2
    /\ Len(Notifications(log)) = 3

===========================================================================
